---- MODULE Spec2Model ----
(***************************************************************************)
(* Model of the babelfish relay bot (src/src/main.rs).                     *)
(*                                                                         *)
(* One run of Handler::message is started for every message the chat       *)
(* platform delivers.  A run is cut into steps at its await points: the    *)
(* store's read lock, the translation request, the store's write lock,     *)
(* the send request and the second write lock.  The translation map is     *)
(* the only shared mutable state; the configuration is immutable.          *)
(***************************************************************************)
EXTENDS Integers, Sequences, FiniteSets, TLC

----------------------------------------------------------------------------
(* Bounds *)

\* Number of messages humans post.
MaxUserPosts == 2

\* Number of messages, from humans and from the bot, the platform creates.
MaxMsgs == 4

\* Number of runs that are past classification and not yet finished.
MaxActive == 2

\* Keys used by the stand-alone exercise of the translation map.
MaxKeys == 2

----------------------------------------------------------------------------
(* Configuration: Settings, loaded once by main *)

bot_user_id == 9

aggregate_channel_id == 100

default_language == "EN"

\* source_channel_language: one source channel, expected to carry French
SourceChannel == 101

source_channel_language == [c \in {SourceChannel} |-> "FR"]

\* A channel of the server the bot is not configured for
OtherChannel == 102

\* The human author of inbound messages
Alice == 1

Channels == {aggregate_channel_id, SourceChannel, OtherChannel}

\* Language codes the translation provider can report
Languages == {"EN", "FR", "DE"}

\* The text of a translation, as far as the program distinguishes it: empty
\* or not
Texts == {"", "text"}

----------------------------------------------------------------------------
(* State *)

VARIABLES
    msgs,            \* the platform's messages, by id (1..Len): channel_id, author, ref
    pc,              \* per message, the position of its run of Handler::message
    target_message,  \* per run, the BotMessage being built (a local, gone when the run ends)
    translation,     \* per run, the Translation returned by translate_message (a local)
    sent_message,    \* per run, the id of the message the platform created for its send (0: none)
    request,         \* per run, the send request the platform has not answered yet
    translations,    \* the shared HashMap<MessageId, PastTranslation>
    readers,         \* runs holding the read lock of the map
    writer,          \* the run holding the write lock of the map (0: none)
    calls,           \* history: per run, number of translation requests, sends, map insertions
    detected,        \* history: per run, the source language translate_message reported
    outcome,         \* history: per run, which collaborator failed ("", "translate", "send")
    lastInsert       \* history: the last insertion of the stand-alone exercise of the map

vars == <<msgs, pc, target_message, translation, sent_message, request,
          translations, readers, writer, calls, detected, outcome, lastInsert>>

Runs == 1..Len(msgs)

NoTranslation == [text |-> "", detected_source_language |-> ""]

NoBotMessage == [target_channel_id |-> 0, target_language |-> "", target_reply_to_message |-> 0]

NoRequest == [channel_id |-> 0, reference |-> 0]

NoInsert ==
    [key |-> 0, value |-> [channel_id |-> 0, message_id |-> 0, language |-> ""], present |-> FALSE]

NoCalls == [translate |-> 0, send |-> 0, insert |-> 0]

----------------------------------------------------------------------------
(* Pure helpers of main.rs *)

\* is_bot_message that recognises nobody as the bot
is_bot_message_never(bot_id, message_author_id) == FALSE

is_bot_message(bot_id, message_author_id) == bot_id = message_author_id

is_monitored_channel(agg_channel_id, source_channel_list, msg_channel_id) ==
    msg_channel_id = agg_channel_id \/ msg_channel_id \in DOMAIN source_channel_list

\* ReplyTo of the referenced message carried by the event; ref = 0 is "None"
get_replied_to_message(ref) ==
    IF ref # 0
    THEN [present |-> TRUE, message_id |-> ref, author_id |-> msgs[ref].author]
    ELSE [present |-> FALSE, message_id |-> 0, author_id |-> 0]

reply_to(r) == get_replied_to_message(msgs[r].ref)

\* the aggregate check left out
standalone_aggregate_unchecked(channel_id, reply) == FALSE

\* "If we are posting in the aggregate channel and we are not replying to anyone"
standalone_aggregate(channel_id, reply) ==
    channel_id = aggregate_channel_id /\ reply.message_id = 0

\* channel_lang; "" stands for the early return of the unconfigured channel
channel_lang(channel_id) ==
    IF channel_id \in DOMAIN source_channel_language
    THEN source_channel_language[channel_id]
    ELSE IF channel_id # aggregate_channel_id THEN "" ELSE default_language

\* the default target built with the message id in place of the channel id
default_target_message_id(id) ==
    [target_channel_id |-> id,
     target_language |-> default_language,
     target_reply_to_message |-> id]

\* The BotMessage a message gets "unless we discern otherwise"
default_target(id) ==
    [target_channel_id |-> aggregate_channel_id,
     target_language |-> default_language,
     target_reply_to_message |-> id]

\* match referenced_past_translation { Some(s) => ..., None => target_message }
past_translation_target(map, reply, current) ==
    IF reply.message_id \in DOMAIN map
    THEN [target_channel_id |-> map[reply.message_id].channel_id,
          target_language |-> map[reply.message_id].language,
          target_reply_to_message |-> map[reply.message_id].message_id]
    ELSE current

\* the override for a reply to a message the bot did not write left out
non_bot_reply_target_skipped(channel_id, reply, current) == current

\* "If the message we are replying to was _not_ written by the bot"
non_bot_reply_target(channel_id, reply, current) ==
    IF /\ reply.present
       /\ reply.message_id # 0
       /\ reply.author_id # bot_user_id
       /\ channel_id # aggregate_channel_id
    THEN [target_channel_id |-> aggregate_channel_id,
          target_language |-> default_language,
          target_reply_to_message |-> 0]
    ELSE current

\* translate_message, given the first translation of the provider's answer
translate_message(first_translation, language_code) ==
    IF first_translation.detected_source_language = language_code
    THEN [text |-> "", detected_source_language |-> language_code]
    ELSE first_translation

\* translations.insert(key, value): the value of a present key is replaced
insert_overwriting(map, key, value) ==
    [k \in DOMAIN map \cup {key} |-> IF k = key THEN value ELSE map[k]]

\* or_insert on a copy of the map that holds only the entries of the same
\* message: what cloning the HashMap instead of the Arc would give a run
or_insert_private_copy(map, key, value) ==
    [k \in {x \in DOMAIN map : map[x].message_id = value.message_id} \cup {key} |->
        IF k \in DOMAIN map THEN map[k] ELSE value]

\* translations.entry(key).or_insert(value)
or_insert(map, key, value) ==
    IF key \in DOMAIN map
    THEN map
    ELSE [k \in DOMAIN map \cup {key} |-> IF k = key THEN value ELSE map[k]]

\* the original record pointing at the replied-to message
past_translation_reply_id(r) ==
    [channel_id |-> msgs[r].channel_id,
     message_id |-> msgs[r].ref,
     language |-> channel_lang(msgs[r].channel_id)]

\* PastTranslation stored under the id of the inbound message
past_translation(r) ==
    [channel_id |-> msgs[r].channel_id,
     message_id |-> r,
     language |-> channel_lang(msgs[r].channel_id)]

\* the sent message recorded with the language configured for the channel
sent_translation_channel_lang(r) ==
    [channel_id |-> msgs[r].channel_id,
     message_id |-> r,
     language |-> channel_lang(msgs[r].channel_id)]

\* the sent message recorded with the channel it was sent to
sent_translation_target_channel(r) ==
    [channel_id |-> target_message[r].target_channel_id,
     message_id |-> r,
     language |-> translation[r].detected_source_language]

\* PastTranslation stored under the id of the message the bot sent
sent_translation(r) ==
    [channel_id |-> msgs[r].channel_id,
     message_id |-> r,
     language |-> translation[r].detected_source_language]

\* the reference attached to every message sent
message_reference_always(r) == target_message[r].target_reply_to_message

\* The message reference the send closure attaches (0: none)
message_reference(r) ==
    IF reply_to(r).message_id # 0 /\ is_bot_message(bot_user_id, reply_to(r).author_id)
    THEN target_message[r].target_reply_to_message
    ELSE 0

\* Without the block around the lookup the read guard would live on to the end
\* of the handler
all_past_translations_kept(held, r) == held

\* The block around the lookup ends: all_past_translations, the read guard, is
\* dropped before anything else is awaited
all_past_translations_dropped(held, r) == held \ {r}

\* the message sent before its own record is written
after_translation_send_first == "send"

\* Where the run continues when translate_message has returned: the
\* original-message record is written next, the send comes after it
after_translation == "store_original"

\* the failure swallowed: the run goes on with the default Translation
after_translate_failure_continue == "store_original"

\* Where the run continues when translate_message fails: unwrap panics
after_translate_failure == "failed"

\* the send attempted again
after_send_failure_retry == "send"

\* Where the run continues when send_message returns Err: the error is printed
after_send_failure == "done"

----------------------------------------------------------------------------
(* Bookkeeping *)

InFlightPcs == {"lookup", "reading", "translating", "store_original",
                "writing_original", "send", "sending", "store_sent", "writing_sent"}

InFlight(r) == pc[r] \in InFlightPcs

Set(f, r, v) == [f EXCEPT ![r] = v]

Count(r, what) == [calls EXCEPT ![r][what] = @ + 1]

----------------------------------------------------------------------------
(* Initial state: main inserts an empty map; no message has been delivered *)

Init ==
    /\ msgs = <<>>
    /\ pc = <<>>
    /\ target_message = <<>>
    /\ translation = <<>>
    /\ sent_message = <<>>
    /\ request = <<>>
    /\ translations = <<>>
    /\ readers = {}
    /\ writer = 0
    /\ calls = <<>>
    /\ detected = <<>>
    /\ outcome = <<>>
    /\ lastInsert = NoInsert

----------------------------------------------------------------------------
(* The chat platform *)

\* A reply references a message of the same channel
CanReference(channel_id, ref) ==
    ref = 0 \/ (ref \in Runs /\ msgs[ref].channel_id = channel_id)

\* Handler::message up to its first wait for the map's lock: the bot and
\* monitored-channel checks, the reply resolution, the aggregate check and the
\* channel language.  This stretch reads the event and the configuration
\* only, so it is taken in the step that delivers the event.
ignored(channel_id, author, ref) ==
    \/ is_bot_message(bot_user_id, author)
    \/ ~is_monitored_channel(aggregate_channel_id, source_channel_language, channel_id)
    \/ standalone_aggregate(channel_id, get_replied_to_message(ref))
    \/ channel_lang(channel_id) = ""

\* Where the run of a delivered message stands, and the BotMessage it holds
first_pc(channel_id, author, ref) ==
    IF ignored(channel_id, author, ref) THEN "rejected" ELSE "lookup"

first_target(id, channel_id, author, ref) ==
    IF ignored(channel_id, author, ref) THEN NoBotMessage ELSE default_target(id)

\* A human posts a message; the platform delivers it and its run starts
UserPost(channel_id, ref) ==
    /\ Cardinality({m \in Runs : msgs[m].author = Alice}) < MaxUserPosts
    /\ Len(msgs) < MaxMsgs
    /\ CanReference(channel_id, ref)
    /\ \/ ignored(channel_id, Alice, ref)
       \/ Cardinality({x \in Runs : InFlight(x)}) < MaxActive
    /\ msgs' = Append(msgs, [channel_id |-> channel_id, author |-> Alice, ref |-> ref])
    /\ pc' = Append(pc, first_pc(channel_id, Alice, ref))
    /\ target_message' = Append(target_message,
                                first_target(Len(msgs) + 1, channel_id, Alice, ref))
    /\ translation' = Append(translation, NoTranslation)
    /\ sent_message' = Append(sent_message, 0)
    /\ request' = Append(request, NoRequest)
    /\ calls' = Append(calls, NoCalls)
    /\ detected' = Append(detected, "")
    /\ outcome' = Append(outcome, "")
    /\ UNCHANGED <<translations, readers, writer, lastInsert>>

----------------------------------------------------------------------------
(* Handler::message, one action per stretch between two await points *)

\* translations_lock.read().await
ReadLock(r) ==
    /\ pc[r] = "lookup"
    /\ writer = 0
    /\ readers' = readers \cup {r}
    /\ pc' = Set(pc, r, "reading")
    /\ UNCHANGED <<msgs, target_message, translation, sent_message, request,
                   translations, writer, calls, detected, outcome, lastInsert>>

\* Lookup of the referenced past translation under the read lock, release of
\* the lock, the override for a reply to a message the bot did not write, and
\* the request translate_message posts to the provider
Lookup(r) ==
    /\ pc[r] = "reading"
    /\ target_message' = Set(target_message, r,
           non_bot_reply_target(msgs[r].channel_id, reply_to(r),
               past_translation_target(translations, reply_to(r), target_message[r])))
    /\ readers' = all_past_translations_dropped(readers, r)
    /\ pc' = Set(pc, r, "translating")
    /\ calls' = Count(r, "translate")
    /\ UNCHANGED <<msgs, translation, sent_message, request, translations,
                   writer, detected, outcome, lastInsert>>

\* The provider answers; translate_message returns its first translation
TranslateReturn(r, text, language) ==
    /\ pc[r] = "translating"
    /\ translation' = Set(translation, r,
           translate_message([text |-> text, detected_source_language |-> language],
                             target_message[r].target_language))
    /\ detected' = Set(detected, r, translation'[r].detected_source_language)
    /\ pc' = Set(pc, r, after_translation)
    /\ UNCHANGED <<msgs, target_message, sent_message, request, translations,
                   readers, writer, calls, outcome, lastInsert>>

\* The request or the parsing of its answer fails: unwrap panics, the run ends
TranslateFail(r) ==
    /\ pc[r] = "translating"
    /\ pc' = Set(pc, r, after_translate_failure)
    /\ target_message' = Set(target_message, r, NoBotMessage)
    /\ outcome' = Set(outcome, r, "translate")
    /\ UNCHANGED <<msgs, translation, sent_message, request,
                   translations, readers, writer, calls, detected, lastInsert>>

\* translations_lock.write().await
WriteLock(r, from, to) ==
    /\ pc[r] = from
    /\ writer = 0
    /\ readers = {}
    /\ writer' = r
    /\ pc' = Set(pc, r, to)
    /\ UNCHANGED <<msgs, target_message, translation, sent_message, request,
                   translations, readers, calls, detected, outcome, lastInsert>>

\* The insertion made while the write lock is held, and the release of the lock
Insert(r, from, to, key, value) ==
    /\ pc[r] = from
    /\ writer = r
    /\ translations' = or_insert(translations, key, value)
    /\ writer' = 0
    /\ pc' = Set(pc, r, to)
    /\ calls' = Count(r, "insert")
    /\ UNCHANGED <<msgs, sent_message, request, readers, detected, outcome, lastInsert>>

WriteLockOriginal(r) == WriteLock(r, "store_original", "writing_original")

\* "Now write this message's id to storage, keying its source language"
StoreOriginal(r) ==
    /\ Insert(r, "writing_original", "send", r, past_translation(r))
    /\ UNCHANGED <<target_message, translation>>

\* target_channel_id.send_message: the request leaves for the platform
SendCall(r) ==
    /\ pc[r] = "send"
    /\ request' = Set(request, r, [channel_id |-> target_message[r].target_channel_id,
                                   reference |-> message_reference(r)])
    /\ pc' = Set(pc, r, "sending")
    /\ calls' = Count(r, "send")
    /\ UNCHANGED <<msgs, target_message, translation, sent_message,
                   translations, readers, writer, detected, outcome, lastInsert>>

\* The platform creates the bot's message, visible to everyone from now on,
\* delivers it to the bot as a new event, whose run starts, and answers the
\* request
SendOk(r) ==
    /\ pc[r] = "sending"
    /\ Len(msgs) < MaxMsgs
    /\ CanReference(request[r].channel_id, request[r].reference)
    /\ msgs' = Append(msgs, [channel_id |-> request[r].channel_id, author |-> bot_user_id,
                             ref |-> request[r].reference])
    /\ pc' = Append(Set(pc, r, "store_sent"),
                    first_pc(request[r].channel_id, bot_user_id, request[r].reference))
    /\ target_message' = Append(target_message,
           first_target(Len(msgs) + 1, request[r].channel_id, bot_user_id,
                        request[r].reference))
    /\ translation' = Append(translation, NoTranslation)
    /\ sent_message' = Append(Set(sent_message, r, Len(msgs) + 1), 0)
    /\ request' = Append(Set(request, r, NoRequest), NoRequest)
    /\ calls' = Append(calls, NoCalls)
    /\ detected' = Append(detected, "")
    /\ outcome' = Append(outcome, "")
    /\ UNCHANGED <<translations, readers, writer, lastInsert>>

\* The send fails: the error is printed and the run ends
SendFail(r) ==
    /\ pc[r] = "sending"
    /\ pc' = Set(pc, r, after_send_failure)
    /\ target_message' = Set(target_message, r, NoBotMessage)
    /\ translation' = Set(translation, r, NoTranslation)
    /\ request' = Set(request, r, NoRequest)
    /\ outcome' = Set(outcome, r, "send")
    /\ UNCHANGED <<msgs, sent_message, translations, readers, writer, calls, detected, lastInsert>>

WriteLockSent(r) == WriteLock(r, "store_sent", "writing_sent")

\* "We need to write this message to the translations map"
StoreSent(r) ==
    /\ Insert(r, "writing_sent", "done", sent_message[r], sent_translation(r))
    /\ target_message' = Set(target_message, r, NoBotMessage)
    /\ translation' = Set(translation, r, NoTranslation)

----------------------------------------------------------------------------

Next ==
    \/ \E c \in Channels, ref \in 0..MaxMsgs : UserPost(c, ref)
    \/ \E r \in Runs : ReadLock(r)
    \/ \E r \in Runs : Lookup(r)
    \/ \E r \in Runs, text \in Texts, language \in Languages :
          TranslateReturn(r, text, language)
    \/ \E r \in Runs : TranslateFail(r)
    \/ \E r \in Runs : WriteLockOriginal(r)
    \/ \E r \in Runs : StoreOriginal(r)
    \/ \E r \in Runs : SendCall(r)
    \/ \E r \in Runs : SendOk(r)
    \/ \E r \in Runs : SendFail(r)
    \/ \E r \in Runs : WriteLockSent(r)
    \/ \E r \in Runs : StoreSent(r)

Spec == Init /\ [][Next]_vars

\* Every step a run can take on its own: the lock it waits for is granted once
\* free, the provider and the platform answer or fail, the executor polls
\* every task
Step(r) ==
    /\ r \in Runs
    /\ \/ ReadLock(r)
       \/ Lookup(r)
       \/ \E text \in Texts, language \in Languages : TranslateReturn(r, text, language)
       \/ TranslateFail(r)
       \/ WriteLockOriginal(r)
       \/ StoreOriginal(r)
       \/ SendCall(r)
       \/ SendOk(r)
       \/ SendFail(r)
       \/ WriteLockSent(r)
       \/ StoreSent(r)

\* The program under a fair executor, with collaborators that answer; the
\* users stay free to post or not
SpecFair == Spec /\ \A r \in 1..MaxMsgs : WF_vars(Step(r))

----------------------------------------------------------------------------
(* The translation map on its own: insertions with arbitrary keys and values *)

StoreKeys == 1..MaxKeys

StoreValues ==
    [channel_id : {aggregate_channel_id, SourceChannel},
     message_id : StoreKeys,
     language : {"EN", "FR"}]

ExerciseInsert(key, value) ==
    /\ translations' = or_insert(translations, key, value)
    /\ lastInsert' = [key |-> key, value |-> value, present |-> key \in DOMAIN translations]
    /\ UNCHANGED <<msgs, pc, target_message, translation, sent_message, request,
                   readers, writer, calls, detected, outcome>>

NextStore == \E key \in StoreKeys, value \in StoreValues : ExerciseInsert(key, value)

SpecStore == Init /\ [][NextStore]_vars

----------------------------------------------------------------------------
(* The program after a restart: the map main builds is empty again, while the
   channels still hold what was posted before *)

\* One post of the bot from before the restart is still in a monitored
\* channel; it is not delivered again, and no run of this process is behind it
InitRestarted ==
    /\ \E c \in {aggregate_channel_id, SourceChannel} :
          msgs = <<[channel_id |-> c, author |-> bot_user_id, ref |-> 0]>>
    /\ pc = <<"rejected">>
    /\ target_message = <<NoBotMessage>>
    /\ translation = <<NoTranslation>>
    /\ sent_message = <<0>>
    /\ request = <<NoRequest>>
    /\ translations = <<>>
    /\ readers = {}
    /\ writer = 0
    /\ calls = <<NoCalls>>
    /\ detected = <<"">>
    /\ outcome = <<"">>
    /\ lastInsert = NoInsert

SpecRestarted == InitRestarted /\ [][Next]_vars

----------------------------------------------------------------------------

TypeOK ==
    /\ \A r \in Runs : pc[r] \in InFlightPcs \cup {"rejected", "failed", "done"}
    /\ writer \in Runs \cup {0}
    /\ readers \subseteq Runs

----------------------------------------------------------------------------
(* Properties *)

\* The route of run r is final: its lookup is done and it has not returned
Routed(r) ==
    pc[r] \in {"translating", "store_original", "writing_original", "send", "sending",
               "store_sent", "writing_sent"}

\* Run r has passed the insertion of its original-message record
OriginalStored(r) == pc[r] \in {"send", "sending", "store_sent", "writing_sent", "done"}

\* Run r does its lookup in this step
LooksUp(r) == pc[r] = "reading" /\ pc'[r] = "translating"

\* m is a non-reply message of a source channel, p the message the bot sent
\* for it, and both records are in the map
Relayed(m, p) ==
    /\ msgs[m].channel_id \in DOMAIN source_channel_language
    /\ msgs[m].ref = 0
    /\ p # 0
    /\ sent_message[m] = p
    /\ m \in DOMAIN translations
    /\ p \in DOMAIN translations

RecordsOf(r) == {k \in DOMAIN translations : translations[k].message_id = r}

\* C1 (as stated): a reply in the aggregate channel to the relayed post P of
\* a source message M, looked up once both records are written, is routed to
\* M's channel, in the language configured for that channel, anchored to M.
\* M counts as translated when the provider did not report it as being in
\* the target language already.
C1_RoundTripConfiguredLanguage ==
    [][\A r \in Runs, m \in Runs :
          (/\ LooksUp(r)
           /\ msgs[r].channel_id = aggregate_channel_id
           /\ Relayed(m, msgs[r].ref)
           /\ detected[m] # default_language)
          => target_message'[r] =
                 [target_channel_id |-> msgs[m].channel_id,
                  target_language |-> source_channel_language[msgs[m].channel_id],
                  target_reply_to_message |-> m]]_vars

\* C1 (amended): such a reply is routed to M's channel, anchored to M, in the
\* source language the translation of M detected.
C1_RoundTripDetectedLanguage ==
    [][\A r \in Runs, m \in Runs :
          (LooksUp(r) /\ msgs[r].channel_id = aggregate_channel_id /\ Relayed(m, msgs[r].ref))
          => target_message'[r] =
                 [target_channel_id |-> msgs[m].channel_id,
                  target_language |-> detected[m],
                  target_reply_to_message |-> m]]_vars

\* A reply to a relayed post has been routed home, in a detected language
\* that is not the configured language of the source channel
C1_Witness ==
    \E r \in Runs, m \in Runs :
        /\ Routed(r)
        /\ msgs[r].channel_id = aggregate_channel_id
        /\ Relayed(m, msgs[r].ref)
        /\ detected[m] \notin {source_channel_language[msgs[m].channel_id], default_language}
        /\ target_message[r] =
               [target_channel_id |-> msgs[m].channel_id,
                target_language |-> detected[m],
                target_reply_to_message |-> m]

\* C2: a run whose translation reports the target language as the detected
\* source language sends nothing, and its original-message record is
\* written.
C2_NoOpSendsNothing ==
    \A r \in Runs :
        (translation[r] # NoTranslation
         /\ translation[r].detected_source_language = target_message[r].target_language)
        => /\ calls[r].send = 0
           /\ request[r] = NoRequest
           /\ OriginalStored(r) => r \in DOMAIN translations

\* C3: a key present in the map stays present with the same record in every
\* step; an insertion on a present key changes nothing.
C3_NoOverwrite ==
    [][\A k \in DOMAIN translations :
          k \in DOMAIN translations' /\ translations'[k] = translations[k]]_vars

\* The last insertion hit a present key with another record, and the map
\* still holds the first one
C3_Witness ==
    /\ lastInsert.present
    /\ lastInsert.key \in DOMAIN translations
    /\ translations[lastInsert.key] # lastInsert.value

\* C4: a message in the aggregate channel without a referenced message gets
\* no route, no translation request and no send, and inserts nothing.
C4_StandaloneAggregateRejected ==
    \A r \in Runs :
        (msgs[r].channel_id = aggregate_channel_id /\ msgs[r].ref = 0)
        => /\ pc[r] = "rejected"
           /\ target_message[r] = NoBotMessage
           /\ calls[r] = NoCalls
           /\ request[r] = NoRequest
           /\ sent_message[r] = 0
           /\ RecordsOf(r) = {}

\* A human's standalone message in the aggregate channel was rejected while
\* the map held records
C4_Witness ==
    \E r \in Runs :
        /\ msgs[r].channel_id = aggregate_channel_id
        /\ msgs[r].ref = 0
        /\ msgs[r].author = Alice
        /\ pc[r] = "rejected"
        /\ DOMAIN translations # {}

\* C5: however runs interleave, the map holds for every run exactly the
\* entries the run writes on its own: its original record once that
\* insertion is passed, its reverse record once it is done after a
\* successful send, each with its three fields, and nothing else.
C5_ConcurrentRunsKeepTheirEntries ==
    /\ \A r \in Runs :
          OriginalStored(r)
          => /\ r \in DOMAIN translations
             /\ translations[r] = [channel_id |-> msgs[r].channel_id,
                                   message_id |-> r,
                                   language |-> channel_lang(msgs[r].channel_id)]
    /\ \A r \in Runs :
          (pc[r] = "done" /\ sent_message[r] # 0)
          => /\ sent_message[r] \in DOMAIN translations
             /\ translations[sent_message[r]] = [channel_id |-> msgs[r].channel_id,
                                                 message_id |-> r,
                                                 language |-> detected[r]]
    /\ \A k \in DOMAIN translations :
          \E r \in Runs : \/ k = r /\ OriginalStored(r)
                          \/ k = sent_message[r] /\ pc[r] = "done"

\* Two runs that overlapped are both done with both their records: the
\* second replied to the post of the first and found no record for it, so
\* its lookup fell between the first run's send and its second insertion
C5_Witness ==
    \E m \in Runs, r \in Runs :
        /\ m # r
        /\ pc[m] = "done" /\ sent_message[m] # 0
        /\ pc[r] = "done" /\ sent_message[r] # 0
        /\ msgs[r].ref = sent_message[m]
        /\ msgs[r].channel_id = aggregate_channel_id
        /\ msgs[sent_message[r]].channel_id = aggregate_channel_id
        /\ msgs[m].channel_id # aggregate_channel_id
        /\ Cardinality(DOMAIN translations) = 4

\* C6: every routed reply to a message the bot has posted for message M is
\* routed to M's channel, anchored to M, in M's language (the one
\* configured for its channel or the one detected for it).
C6_ReplyAlwaysRoutesHome ==
    \A r \in Runs, m \in Runs :
        (Routed(r) /\ sent_message[m] # 0 /\ msgs[r].ref = sent_message[m])
        => /\ target_message[r].target_channel_id = msgs[m].channel_id
           /\ target_message[r].target_reply_to_message = m
           /\ target_message[r].target_language
                  \in {detected[m], channel_lang(msgs[m].channel_id)}

\* C8: a run whose translation failed has ended, has sent nothing, has made
\* a single translation request, and every record it inserted is in the map.
C8_TranslationFailureEndsRun ==
    \A r \in Runs :
        outcome[r] = "translate"
        => /\ pc[r] = "failed"
           /\ calls[r].translate = 1
           /\ calls[r].send = 0
           /\ request[r] = NoRequest
           /\ sent_message[r] = 0
           /\ Cardinality(RecordsOf(r)) = calls[r].insert

\* A translation failed while the map held records of other runs
C8_Witness ==
    \E r \in Runs :
        /\ outcome[r] = "translate"
        /\ pc[r] = "failed"
        /\ DOMAIN translations # {}

\* C9: a run whose send failed has ended with its original record in the
\* map, no record under any other key, and a single send.
C9_SendFailureKeepsOriginal ==
    \A r \in Runs :
        outcome[r] = "send"
        => /\ pc[r] = "done"
           /\ calls[r].send = 1
           /\ sent_message[r] = 0
           /\ r \in DOMAIN translations
           /\ translations[r] = [channel_id |-> msgs[r].channel_id,
                                 message_id |-> r,
                                 language |-> channel_lang(msgs[r].channel_id)]
           /\ RecordsOf(r) = {r}

\* A send failed and the run is over
C9_Witness ==
    \E r \in Runs :
        /\ outcome[r] = "send"
        /\ pc[r] = "done"
        /\ r \in DOMAIN translations

\* C10: a message of the bot, or a message in a channel that is neither the
\* aggregate channel nor a source channel, causes no translation request,
\* no send and no insertion.
C10_RejectionLeavesNoTrace ==
    \A r \in Runs :
        (\/ msgs[r].author = bot_user_id
         \/ msgs[r].channel_id \notin {aggregate_channel_id} \cup DOMAIN source_channel_language)
        => /\ pc[r] = "rejected"
           /\ target_message[r] = NoBotMessage
           /\ calls[r] = NoCalls
           /\ request[r] = NoRequest
           /\ sent_message[r] = 0
           /\ RecordsOf(r) = {}

\* A post of the bot and a human's message in an unconfigured channel have
\* both been rejected
C10_Witness ==
    /\ \E r \in Runs :
          /\ msgs[r].author = bot_user_id
          /\ pc[r] = "rejected"
    /\ \E r \in Runs :
          /\ msgs[r].channel_id = OtherChannel
          /\ pc[r] = "rejected"

\* C11: once a run has issued its send, the map holds the record of the
\* inbound message under the message's own id, and keeps it when the send
\* fails.
C11_OriginalRecordedBeforeSend ==
    \A r \in Runs :
        calls[r].send > 0
        => /\ r \in DOMAIN translations
           /\ translations[r].message_id = r
           /\ translations[r].channel_id = msgs[r].channel_id

\* A send is in progress, the original record is in the map and no record
\* for a posted message of this run exists yet
C11_Witness ==
    \E r \in Runs :
        /\ pc[r] = "sending"
        /\ r \in DOMAIN translations
        /\ RecordsOf(r) = {r}

\* C12: the route of a message in a source channel that replies to a message
\* the bot did not write is the aggregate channel, the default language and
\* no reply anchor, whether or not the map holds a record for the referenced
\* message.
C12_NonBotReplyGoesToAggregate ==
    \A r \in Runs :
        (/\ Routed(r)
         /\ msgs[r].channel_id # aggregate_channel_id
         /\ msgs[r].ref # 0
         /\ msgs[msgs[r].ref].author # bot_user_id)
        => target_message[r] = [target_channel_id |-> aggregate_channel_id,
                                target_language |-> default_language,
                                target_reply_to_message |-> 0]

\* Such a reply has been routed although the referenced message had its
\* record: the referenced message's post was created before the reply was
\* posted, and the record is written before the send
C12_Witness ==
    \E r \in Runs :
        /\ Routed(r)
        /\ msgs[r].channel_id = SourceChannel
        /\ msgs[r].ref # 0
        /\ msgs[msgs[r].ref].author = Alice
        /\ msgs[r].ref \in DOMAIN translations
        /\ sent_message[msgs[r].ref] # 0
        /\ sent_message[msgs[r].ref] < r
        /\ target_message[r].target_channel_id = aggregate_channel_id

\* C13: when a run for message M of channel C is done after a successful
\* send that created P, the map holds under P the record of channel C,
\* message M and the detected source language of the translation.
C13_ReversePointer ==
    \A r \in Runs :
        (pc[r] = "done" /\ sent_message[r] # 0)
        => /\ sent_message[r] \in DOMAIN translations
           /\ translations[sent_message[r]].channel_id = msgs[r].channel_id
           /\ translations[sent_message[r]].message_id = r
           /\ translations[sent_message[r]].language = detected[r]

\* A reverse pointer is written whose channel is not the channel of the post
\* and whose language is not the language configured for the channel
C13_Witness ==
    \E r \in Runs :
        /\ pc[r] = "done"
        /\ sent_message[r] # 0
        /\ sent_message[r] \in DOMAIN translations
        /\ msgs[sent_message[r]].channel_id # msgs[r].channel_id
        /\ translations[sent_message[r]].language # channel_lang(msgs[r].channel_id)

\* C14: a run issues a send only when the translated text is not empty.
C14_SendOnlyTranslatedText ==
    \A r \in Runs : pc[r] = "sending" => translation[r].text # ""

\* C15: the send request carries a message reference, to the reply anchor of
\* the route, exactly when the inbound message references a message written
\* by the bot.
C15_ReferenceOnlyForBotReply ==
    \A r \in Runs :
        pc[r] = "sending"
        => IF msgs[r].ref # 0 /\ msgs[msgs[r].ref].author = bot_user_id
           THEN /\ request[r].reference # 0
                /\ request[r].reference = target_message[r].target_reply_to_message
           ELSE request[r].reference = 0

\* A reply to a post of the bot is being sent with a reference, after the
\* message the post was made for went out without one
C15_Witness ==
    \E r \in Runs :
        /\ pc[r] = "sending"
        /\ msgs[r].ref # 0
        /\ msgs[msgs[r].ref].author = bot_user_id
        /\ msgs[msgs[r].ref].ref = 0
        /\ request[r].reference # 0

\* C16: with collaborators that answer and a fair executor, the run of every
\* inbound message ends rejected, failed or done, however many runs are under
\* way, and no run holds the read or the write lock of the store while its
\* translation or its send is in progress
C16_RunsEndAndLockNotHeldAcrossCalls ==
    /\ \A i \in 1..MaxMsgs :
          (i \in Runs) ~> (i \in Runs /\ pc[i] \in {"rejected", "failed", "done"})
    /\ [](\A r \in Runs : pc[r] \in {"translating", "sending"}
                              => r \notin readers /\ writer # r)

\* One run is waiting for the provider or the platform while another one holds
\* the write lock
C16_Witness ==
    \E a, b \in Runs :
        /\ a # b
        /\ pc[a] \in {"translating", "sending"}
        /\ writer = b
        /\ calls[a].translate > 0

\* C17: whenever the bot sends a message with a reply reference, the anchor is
\* the id of an existing message, not the sentinel 0, and that message was
\* posted in the channel the bot sends to; also when the referenced post of
\* the bot has no record in the store
C17_ReplyAnchorInTargetChannel ==
    \A r \in Runs :
        (pc[r] = "sending" /\ request[r].reference # 0)
            => /\ request[r].reference \in Runs
               /\ msgs[request[r].reference].channel_id = request[r].channel_id

\* C18: for every key k of the store with record R, R.message_id is a key
\* too, the record under R.message_id has its own key as message_id and the
\* channel_id of R, and R.channel_id is the aggregate channel or a configured
\* source channel; the sentinel 0 is never a key
C18_StoreClosed ==
    /\ 0 \notin DOMAIN translations
    /\ \A k \in DOMAIN translations :
          /\ translations[k].message_id \in DOMAIN translations
          /\ translations[translations[k].message_id].message_id = translations[k].message_id
          /\ translations[translations[k].message_id].channel_id = translations[k].channel_id
          /\ translations[k].channel_id \in {aggregate_channel_id} \cup DOMAIN source_channel_language

\* The store holds the records of a message of a source channel and of a
\* reply in the aggregate channel, and the reverse records of the posts the
\* bot made for both
C18_Witness ==
    \E k, j \in DOMAIN translations :
        /\ translations[k].message_id # k
        /\ translations[j].message_id # j
        /\ translations[k].channel_id = SourceChannel
        /\ translations[j].channel_id = aggregate_channel_id
        /\ msgs[translations[j].message_id].ref # 0

\* C19: every send the bot issues goes to the aggregate channel or to a
\* channel that is a key of the configured source-channel language map, so
\* every message the bot has posted is in one of these channels
C19_SendsOnlyToMonitoredChannels ==
    /\ \A r \in Runs :
          pc[r] = "sending"
              => request[r].channel_id
                     \in {aggregate_channel_id} \cup DOMAIN source_channel_language
    /\ \A m \in Runs :
          msgs[m].author = bot_user_id
              => msgs[m].channel_id
                     \in {aggregate_channel_id} \cup DOMAIN source_channel_language

\* The bot has posted in the aggregate channel and is sending to a source
\* channel
C19_Witness ==
    \E r, m \in Runs :
        /\ pc[r] = "sending"
        /\ request[r].channel_id = SourceChannel
        /\ msgs[m].author = bot_user_id
        /\ msgs[m].channel_id = aggregate_channel_id

\* C20: a message that originates in the aggregate channel is never relayed
\* into the aggregate channel: every send made for it goes to a configured
\* source channel
C20_NoAggregateToAggregate ==
    \A r \in Runs :
        (pc[r] = "sending" /\ msgs[r].channel_id = aggregate_channel_id)
            => request[r].channel_id \in DOMAIN source_channel_language

====
